---- MODULE Spec2Model ----
(***************************************************************************)
(* A model of sr-helper.py: the Slurm script generator (generate_scripts), *)
(* the job submitter (run_scripts, _wait_until_clear), the dependency      *)
(* installer (install_dependencies, _download_file), create_config and the *)
(* argparse dispatch table of the __main__ block.                          *)
(*                                                                         *)
(* Text is modelled as sequences of string tokens: a script body is a      *)
(* sequence of lines, a line is a sequence of tokens, a file name is a     *)
(* sequence of tokens.  `x in s` on Python strings becomes a search for a  *)
(* token.  JSON objects are functions from the keys that are present; a    *)
(* lookup of an absent key is a KeyError.                                  *)
(***************************************************************************)
EXTENDS Integers, Sequences, FiniteSets, TLC

\* ------------------------------------------------------------------ bounds
MaxSamples == 2      \* longest "samples" list of a configuration
MaxListing == 3      \* most entries listdir returns for run_scripts
MaxJobs == 1         \* most job lines the queue-status output holds

\* --------------------------------------------------------- module constants
SPACE_RANGER_VERSION == "3.0.0"
HUMAN_REFERENCE_VERSION == "refdata-gex-GRCh38-2020-A"
MOUSE_REFERENCE_VERSION == "refdata-gex-mm10-2020-A"
SPACE_RANGER_URL == "https://cf.10xgenomics.com/releases/spatial-exp/spaceranger-3.0.0.tar.gz"
HUMAN_REFERENCE_URL == "https://cf.10xgenomics.com/supp/spatial-exp/refdata-gex-GRCh38-2020-A.tar.gz"
MOUSE_REFERENCE_URL == "https://cf.10xgenomics.com/supp/spatial-exp/refdata-gex-mm10-2020-A.tar.gz"

\* JSON null / Python None
None == "<None>"

\* ------------------------------------------------------------ text helpers
Digits == <<"0", "1", "2", "3", "4", "5", "6", "7", "8", "9">>

\* str(n) of a natural number, as it is interpolated by an f-string
RECURSIVE str(_)
str(n) == IF n < 10 THEN <<Digits[n + 1]>>
          ELSE str(n \div 10) \o <<Digits[(n % 10) + 1]>>

\* `needle in text` for a text made of tokens
Contains(text, needle) == \E k \in DOMAIN text : text[k] = needle

\* `needle in script` for a script body (a sequence of lines)
ScriptContains(script, needle) ==
    \E l \in DOMAIN script : Contains(script[l], needle)

\* dict[key]: the lookup succeeds iff the key is present
HasKey(d, key) == key \in DOMAIN d

\* _get_script_header(account, time, mem, cpus)
_get_script_header(account, time, mem, cpus) ==
    << <<"#!/bin/bash">>,
       <<"#SBATCH --account=", account>>,
       <<"#SBATCH --time=", time>>,
       <<"#SBATCH --mem=">> \o str(mem) \o <<"G">>,
       <<"#SBATCH --cpus-per-task=">> \o str(cpus),
       <<>> >>

\* ------------------------------------------------------- configuration data
TopKeys == {"pipeline name", "sratoolkit activation", "space ranger directory",
            "genome directory", "reference", "raw data directory",
            "script directory", "result directory", "version", "samples"}
SampleKeys == {"name", "FASTQ", "image", "slide", "area"}
References == {"human", "mouse"}
SampleNames == <<"A1", "B1", "C1", "D1", "E1">>
SlideValues == {None, "V19L01-041"}
AreaValues == {None, "B1"}

\* d without the key `key` (a JSON object that lacks one member)
Without(d, key) == [k \in (DOMAIN d) \ {key} |-> d[k]]

\* a complete sample entry, as in the document create_config writes
FullSample(pos, slide, area) ==
    [name |-> SampleNames[pos], FASTQ |-> "SRR0000000",
     image |-> "high_res.tiff", slide |-> slide, area |-> area]

\* a complete configuration document, as in the document create_config writes
FullConfig(reference, samples) ==
    ("pipeline name" :> "TEST_PIPELINE")
    @@ ("sratoolkit activation" :> "module load mugqic/sratoolkit/2.10.5")
    @@ ("space ranger directory" :> "~/visium/spaceranger-3.0.0")
    @@ ("genome directory" :> "~/visium/references")
    @@ ("reference" :> reference)
    @@ ("raw data directory" :> "~/visium/data")
    @@ ("script directory" :> "~/visium/scripts")
    @@ ("result directory" :> "~/visium/results")
    @@ ("version" :> "visium-2")
    @@ ("samples" :> samples)

\* the sample lists in which every sample has all its keys
FullSampleLists ==
    UNION { { [p \in 1..n |-> FullSample(p, sl[p], ar[p])] :
                sl \in [1..n -> SlideValues], ar \in [1..n -> AreaValues] } :
            n \in 0..MaxSamples }

\* the documents that have every required key
ValidConfigs ==
    { FullConfig(r, ss) : r \in References, ss \in FullSampleLists }

\* the sample lists in which all samples have the same slide and area
UniformSampleLists ==
    UNION { { [p \in 1..n |-> FullSample(p, sl, ar)] :
                sl \in SlideValues, ar \in AreaValues } :
            n \in 0..MaxSamples }

\* s without the key `key` in the sample at position p
WithoutSampleKey(c, p, key) ==
    [c EXCEPT !["samples"] =
        [c["samples"] EXCEPT ![p] = Without(c["samples"][p], key)]]

\* the documents that lack exactly one key: a top-level one, or one key of
\* one sample.  The lookup of "version" depends on the branch each sample
\* takes, so it is removed from every valid document; the other keys are
\* removed from the documents whose samples are uniform.
InvalidConfigs ==
    { Without(c, "version") : c \in ValidConfigs }
    \cup
    { Without(FullConfig(r, ss), k) :
        r \in References, ss \in UniformSampleLists, k \in TopKeys \ {"version"} }
    \cup
    UNION { { WithoutSampleKey(FullConfig(r, ss), p, k) :
                p \in DOMAIN ss, k \in SampleKeys } :
            r \in References, ss \in UniformSampleLists }

\* what open(args.configuration) can hold: text that is not JSON, or a document
NotJSON == [json |-> FALSE]
ConfigFiles ==
    {NotJSON} \cup { [json |-> TRUE, doc |-> c] : c \in ValidConfigs \cup InvalidConfigs }

\* ---------------------------------------------------------- generate_scripts
\* fastqs = f"{out}/fastq", images = f"{out}/images", results
fastqs(configuration) == <<configuration["raw data directory"], "/fastq">>
images(configuration) == <<configuration["raw data directory"], "/images">>
results(configuration) == <<configuration["result directory"]>>

\* path = f"{fastqs}/{sample['name']}"
SamplePath(configuration, sample) ==
    fastqs(configuration) \o <<"/", sample["name"]>>

\* name_root = f"{path}/{configuration['pipeline name']}_S1_L001_"
name_root(configuration, sample) ==
    SamplePath(configuration, sample)
    \o <<"/", configuration["pipeline name"], "_S1_L001_">>

download_script(configuration, account, sample) ==
    _get_script_header(account, "00:30:00", 16, 1)
    \o << <<configuration["sratoolkit activation"]>>,
          <<>>,
          <<"fasterq-dump ">> \o SamplePath(configuration, sample),
          <<>>,
          <<"search_dir=">> \o SamplePath(configuration, sample),
          <<"for file in $search_dir/*; do">>,
          <<"    echo $file">>,
          <<"    if [[ $file == *\"_1.fastq\" ]]; then">>,
          <<"        mv $file ">> \o name_root(configuration, sample) \o <<"_R1_001.fastq">>,
          <<"    elif [[ $file == *\"_2.fastq\" ]]; then">>,
          <<"        mv $file ">> \o name_root(configuration, sample) \o <<"_R2_001.fastq">>,
          <<"    else">>,
          <<"        mv $file ">> \o name_root(configuration, sample) \o <<"_R1_001.fastq">>,
          <<"    fi">>,
          <<"done">>,
          <<>>,
          <<"cp ", sample["image"], " ">> \o SamplePath(configuration, sample) \o <<"/image.tiff">> >>

\* the reference selection with its branches exchanged
transcriptome_swapped(configuration) ==
    IF configuration["reference"] = "human"
    THEN MOUSE_REFERENCE_VERSION
    ELSE HUMAN_REFERENCE_VERSION

\* the reference selected by configuration["reference"]
transcriptome(configuration) ==
    IF configuration["reference"] = "human"
    THEN HUMAN_REFERENCE_VERSION
    ELSE MOUSE_REFERENCE_VERSION

\* transcriptome_path = f"{configuration['genome directory']}/{transcriptome}"
transcriptome_path(configuration) ==
    <<configuration["genome directory"], "/", transcriptome(configuration)>>

\* the branch condition without the test of the area
UnknownSlide_slideOnly(sample) == sample["slide"] = None

\* the condition of the slide-addressing branch; `or` does not evaluate its
\* right operand when the left one is true
UnknownSlide(sample) ==
    IF sample["slide"] = None THEN TRUE ELSE sample["area"] = None

\* the lines of `slide`
slide(configuration, sample) ==
    IF UnknownSlide(sample)
    THEN << <<"  ", "--unknown-slide=", configuration["version"]>> >>
    ELSE << <<"  ", "--slide=", sample["slide"], " \\">>,
            <<"  ", "--area=", sample["area"]>> >>

process_script(configuration, account, sample) ==
    _get_script_header(account, "00:55:00", 64, 8)
    \o << <<"source ", configuration["space ranger directory"], "/sourceme.bash">>,
          <<>>,
          <<"spaceranger count \\">>,
          <<"  ", "--id=">> \o results(configuration) \o <<" \\">>,
          <<"  ", "--transcriptome=">> \o transcriptome_path(configuration) \o <<" \\">>,
          <<"  ", "--fastqs=">> \o SamplePath(configuration, sample) \o <<" \\">>,
          <<"  ", "--sample=", sample["name"], " \\">>,
          <<"  ", "--image=", sample["image"], " \\">>,
          <<"  ", "--localcores=8", " \\">>,
          <<"  ", "--localmem=64", " \\">>,
          <<"  ", "-create-bam=false", " \\">> >>
    \o slide(configuration, sample)

\* download_name with the index counted from 1
download_name_from1(out, i) == <<out, "/", "download", "_">> \o str(i + 1) \o <<".sh">>

\* download_name = f'{out}/download_{i}.sh' ; i counts from 0
download_name(out, i) == <<out, "/", "download", "_">> \o str(i) \o <<".sh">>

\* process_name = f'{out}/process_{i}.sh'
process_name(out, i) == <<out, "/", "process", "_">> \o str(i) \o <<".sh">>

\* a write that leaves an existing file as it is
WriteFile_keep(files, name, content) ==
    IF name \in DOMAIN files
    THEN files
    ELSE [f \in (DOMAIN files) \cup {name} |-> IF f = name THEN content ELSE files[f]]

\* open(name, "w").write(content): creates the file or replaces its content
WriteFile(files, name, content) ==
    [f \in (DOMAIN files) \cup {name} |-> IF f = name THEN content ELSE files[f]]

\* the statements of one loop iteration up to the writes raise KeyError
IterationKeyError(configuration, sample) ==
    \/ ~HasKey(sample, "name")
    \/ ~HasKey(configuration, "pipeline name")
    \/ ~HasKey(configuration, "sratoolkit activation")
    \/ ~HasKey(sample, "image")
    \/ ~HasKey(configuration, "space ranger directory")
    \/ ~HasKey(configuration, "reference")
    \/ ~HasKey(configuration, "genome directory")
    \/ ~HasKey(sample, "slide")
    \/ (sample["slide"] # None /\ ~HasKey(sample, "area"))
    \/ (UnknownSlide(sample) /\ ~HasKey(configuration, "version"))

\* -------------------------------------------------------------------- state
VARIABLES
    pc,             \* position of the running process; "idle" when none runs
    command,        \* the subcommand on the command line (NoCommand: none)
    func,           \* the handler being executed
    args,           \* the argument namespace handed to the handler
    exc,            \* the exception that ended the handler, or NoException
    fs,             \* the script files on disk: path -> content
    dirs,           \* the directories this process has made sure exist (mkdir)
    configuration,  \* generate_scripts: the loaded JSON document
    i,              \* generate_scripts: index of the next sample
    written,        \* the paths written by this call, in order
    fs0,            \* the script files on disk when generate_scripts was entered
    ran,            \* the external commands run by this process (subprocess.run)
    printed,        \* the messages printed by this process
    scripts,        \* run_scripts: the directory listing
    idx,            \* run_scripts: position in the listing of the running loop
    polls,          \* _wait_until_clear: completed iterations of the loop
    p,              \* _wait_until_clear: the last completed process of `sq`
    answers,        \* install_dependencies: the three answers typed
    onPath          \* the tools found on PATH

vars == <<pc, command, func, args, exc, fs, dirs, configuration, i, written, fs0,
          ran, printed, scripts, idx, polls, p, answers, onPath>>

genVars == <<configuration, i, written, fs0>>
runVars == <<scripts, idx, polls, p>>
instVars == <<answers, onPath>>

NoCommand == ""
NoFunc == ""
NoException == ""
NoArgs == <<>>
NoConfiguration == <<>>
NoFiles == <<>>
NoProcess == <<>>
NoAnswers == <<>>

\* the external tools whose presence the code tests with shutil.which
Tools == {"curl"}

Init ==
    /\ pc = "idle"
    /\ command = NoCommand
    /\ func = NoFunc
    /\ args = NoArgs
    /\ exc = NoException
    /\ fs = NoFiles
    /\ dirs = {}
    /\ configuration = NoConfiguration
    /\ i = 0
    /\ written = <<>>
    /\ fs0 = NoFiles
    /\ ran = <<>>
    /\ printed = <<>>
    /\ scripts = <<>>
    /\ idx = 0
    /\ polls = 0
    /\ p = NoProcess
    /\ answers = NoAnswers
    /\ onPath = Tools

\* an uncaught exception ends the handler
Raise(e) == pc' = "raised" /\ exc' = e

\* --------------------------------------------------------- generate_scripts
\* lines 152-153: open the configuration file and json.load it
GenLoad ==
    /\ pc = "call" /\ func = "generate_scripts"
    /\ \E file \in ConfigFiles :
         IF file.json
         THEN /\ configuration' = file.doc
              /\ pc' = "gen_dirs"
              /\ exc' = exc
         ELSE /\ Raise("JSONDecodeError")
              /\ configuration' = configuration
    /\ fs0' = fs
    /\ UNCHANGED <<command, func, args, fs, dirs, i, written, ran, printed>>
    /\ UNCHANGED <<runVars, instVars>>

\* the directories lines 154-160 create, in order, stopping at the first
\* absent key
DirsCreated(c) ==
    IF ~HasKey(c, "raw data directory") \/ ~HasKey(c, "result directory")
    THEN {}
    ELSE {<<c["raw data directory"]>>, fastqs(c), images(c), results(c)}
         \cup (IF HasKey(c, "script directory")
               THEN {<<c["script directory"]>>} ELSE {})

\* lines 154-161: the directories, then enumerate(configuration["samples"])
GenDirs ==
    /\ pc = "gen_dirs"
    /\ dirs' = dirs \cup DirsCreated(configuration)
    /\ IF \E k \in {"raw data directory", "result directory",
                    "script directory", "samples"} : ~HasKey(configuration, k)
       THEN Raise("KeyError") /\ i' = i
       ELSE pc' = "gen_loop" /\ i' = 0 /\ exc' = exc
    /\ UNCHANGED <<command, func, args, fs, configuration, written, fs0, ran, printed>>
    /\ UNCHANGED <<runVars, instVars>>

\* lines 162-219: one iteration of the loop over the samples
GenSample ==
    /\ pc = "gen_loop"
    /\ i < Len(configuration["samples"])
    /\ LET sample == configuration["samples"][i + 1]
           out == configuration["script directory"]
       IN /\ dirs' = IF HasKey(sample, "name")
                     THEN dirs \cup {SamplePath(configuration, sample)}
                     ELSE dirs
          /\ IF IterationKeyError(configuration, sample)
             THEN /\ Raise("KeyError")
                  /\ UNCHANGED <<fs, written, i, printed>>
             ELSE /\ fs' = WriteFile(
                             WriteFile(fs, download_name(out, i),
                                       download_script(configuration, args.account, sample)),
                             process_name(out, i),
                             process_script(configuration, args.account, sample))
                  /\ written' = written \o <<download_name(out, i), process_name(out, i)>>
                  /\ printed' = Append(printed, <<"Script files written at ", out>>)
                  /\ i' = i + 1
                  /\ UNCHANGED <<pc, exc>>
    /\ UNCHANGED <<command, func, args, configuration, fs0, ran>>
    /\ UNCHANGED <<runVars, instVars>>

\* the loop is exhausted: the handler returns
GenReturn ==
    /\ pc = "gen_loop"
    /\ i = Len(configuration["samples"])
    /\ pc' = "returned"
    /\ UNCHANGED <<command, func, args, exc, fs, dirs, ran, printed>>
    /\ UNCHANGED <<genVars, runVars, instVars>>

\* --------------------------------------------------------------- run_scripts
\* the names a directory may hold: generated scripts, an unrelated file and
\* a name that contains both substrings
DirNames ==
    { <<"download", "_">> \o str(0) \o <<".sh">>,
      <<"download", "_">> \o str(1) \o <<".sh">>,
      <<"process", "_">> \o str(0) \o <<".sh">>,
      <<"notes", ".txt">>,
      <<"download", "_", "process", ".sh">> }

\* what listdir(args.dir) can return: distinct names in any order
Listings ==
    UNION { { l \in [1..n -> DirNames] :
                \A a, b \in 1..n : a # b => l[a] # l[b] } :
            n \in 0..MaxListing }

\* subprocess.run(["sbatch", f"{args.dir}/{script}"])
Sbatch(dir, script) == <<"sbatch", dir, "/">> \o script

\* line 228: scripts = listdir(args.dir)
RunList ==
    /\ pc = "call" /\ func = "run_scripts"
    /\ \E l \in Listings : scripts' = l
    /\ idx' = 0
    /\ pc' = "run_download"
    /\ UNCHANGED <<command, func, args, exc, fs, dirs, ran, printed, polls, p>>
    /\ UNCHANGED <<genVars, instVars>>

\* the substring the running loop looks for: lines 230 and 234
Needle(at) == IF at = "run_download" THEN "download" ELSE "process"

\* lines 229-231 and 233-235: one iteration of either loop over `scripts`
RunLoop ==
    /\ pc \in {"run_download", "run_process"}
    /\ idx < Len(scripts)
    /\ ran' = IF Contains(scripts[idx + 1], Needle(pc))
              THEN Append(ran, Sbatch(args.dir, scripts[idx + 1]))
              ELSE ran
    /\ idx' = idx + 1
    /\ UNCHANGED <<pc, command, func, args, exc, fs, dirs, printed, scripts, polls, p>>
    /\ UNCHANGED <<genVars, instVars>>

\* a loop over `scripts` is exhausted: line 232 follows the first, the
\* return follows the second
RunLoopEnd ==
    /\ pc \in {"run_download", "run_process"}
    /\ idx = Len(scripts)
    /\ pc' = IF pc = "run_download" THEN "wait" ELSE "returned"
    /\ polls' = 0
    /\ UNCHANGED <<command, func, args, exc, fs, dirs, ran, printed, scripts, idx, p>>
    /\ UNCHANGED <<genVars, instVars>>

\* --------------------------------------------------------- _wait_until_clear
WaitIterations == 60

\* what subprocess.run(["sq"], capture_output=True) returns for a queue of
\* K jobs: capture_output without text=True makes stdout a bytes object; it
\* holds a header line and one line per job, each ended by a newline
SqProcess(K) == [stdout |-> [type |-> "bytes", lines |-> K + 1, newline |-> TRUE]]

\* stdout.split("\n") with a str separator raises TypeError on bytes
SplitRaises(stdout) == stdout.type = "bytes"

\* len(stdout.split("\n")): the pieces between the newlines, the empty piece
\* after a final newline included
SplitLen(stdout) == stdout.lines + (IF stdout.newline THEN 1 ELSE 0)

\* lines 72-78: one iteration of the polling loop; after the last one, or on
\* break, run_scripts goes on to its second loop
WaitPoll ==
    /\ pc = "wait"
    /\ polls < WaitIterations
    /\ \E K \in 0..MaxJobs :
         /\ p' = SqProcess(K)
         /\ ran' = Append(ran, <<"sq">>)
         /\ IF SplitRaises(p'.stdout)
            THEN /\ Raise("TypeError")
                 /\ UNCHANGED <<printed, polls, idx>>
            ELSE LET n_jobs == SplitLen(p'.stdout) - 1
                 IN /\ printed' = Append(printed, <<"Number of ongoing jobs: ">> \o str(n_jobs))
                    /\ polls' = polls + 1
                    /\ pc' = IF n_jobs < 1 \/ polls + 1 = WaitIterations
                             THEN "run_process" ELSE "wait"
                    /\ idx' = 0
                    /\ exc' = exc
    /\ UNCHANGED <<command, func, args, fs, dirs, scripts>>
    /\ UNCHANGED <<genVars, instVars>>

\* ------------------------------------------------------ install_dependencies
\* what the user can type at a prompt
Answers == {"Y", "", "n"}

\* str.lower()
lower(a) == CASE a = "Y" -> "y"
              [] a = "N" -> "n"
              [] OTHER -> a

\* the test guarding each of the three blocks: answer.lower() in ("y", "")
Selected(answer) == lower(answer) \in {"y", ""}

\* which(name) is not None
_is_tool_installed(name) == name \in onPath

\* the commands _download_file(url, output_name) runs: none when curl is absent
_download_file_ran(url, output_name) ==
    IF ~_is_tool_installed("curl")
    THEN <<>>
    ELSE << <<"curl", "-o">> \o output_name \o <<url>> >>

\* the messages _download_file(url, output_name) prints
_download_file_printed(url) ==
    IF ~_is_tool_installed("curl")
    THEN << <<"The program curl is not install. Cannot download ", url>> >>
    ELSE <<>>

\* the commands one block of install_dependencies runs for an archive:
\* _download_file, then tar on the archive name
BlockRan(url, archive_name) ==
    _download_file_ran(url, archive_name)
    \o << <<"tar", "-xvzf">> \o archive_name >>

\* lines 88-92: the three prompts and the installation directory
InstPrompt ==
    /\ pc = "call" /\ func = "install_dependencies"
    /\ \E sr \in Answers, human \in Answers, mouse \in Answers :
         answers' = [download_sr |-> sr, download_human |-> human,
                     download_mouse |-> mouse]
    /\ \E found \in SUBSET Tools : onPath' = found
    /\ dirs' = dirs \cup {<<args.dir>>}
    /\ pc' = "inst_sr"
    /\ UNCHANGED <<command, func, args, exc, fs, ran, printed>>
    /\ UNCHANGED <<genVars, runVars>>

\* one of the three blocks (lines 93-96, 97-100, 101-104)
InstBlock(answer, url, archive_name, next) ==
    /\ IF Selected(answer)
       THEN /\ ran' = ran \o BlockRan(url, archive_name)
            /\ printed' = printed \o _download_file_printed(url)
       ELSE UNCHANGED <<ran, printed>>
    /\ pc' = next
    /\ UNCHANGED <<command, func, args, exc, fs, dirs>>
    /\ UNCHANGED <<genVars, runVars, instVars>>

\* lines 93-96
InstSpaceRanger ==
    /\ pc = "inst_sr"
    /\ InstBlock(answers.download_sr, SPACE_RANGER_URL,
                 <<args.dir, "/spaceranger-", SPACE_RANGER_VERSION, ".tar.gz">>,
                 "inst_human")

\* lines 97-100
InstHuman ==
    /\ pc = "inst_human"
    /\ InstBlock(answers.download_human, HUMAN_REFERENCE_URL,
                 <<args.dir, "/", HUMAN_REFERENCE_VERSION, ".tar.gz">>,
                 "inst_mouse")

\* lines 101-104, after which the handler returns
InstMouse ==
    /\ pc = "inst_mouse"
    /\ InstBlock(answers.download_mouse, MOUSE_REFERENCE_URL,
                 <<args.dir, "/", MOUSE_REFERENCE_VERSION, ".tar.gz">>,
                 "returned")

\* ------------------------------------------------------------ create_config
\* output.endswith(".json")
endswith(name, suffix) == Len(name) > 0 /\ name[Len(name)] = suffix

\* lines 113-143: the example document is written to `output`, unless its
\* name does not end in .json
CreateConfig ==
    /\ pc = "call" /\ func = "create_config"
    /\ IF ~endswith(args.output, ".json")
       THEN /\ printed' = Append(printed, <<"The file name is not a valid JSON name: ">> \o args.output)
            /\ written' = written
       ELSE /\ written' = Append(written, args.output)
            /\ printed' = Append(printed, <<"Created the empty configuration file ">> \o args.output)
    /\ pc' = "returned"
    /\ UNCHANGED <<command, func, args, exc, fs, dirs, ran, configuration, i, fs0>>
    /\ UNCHANGED <<runVars, instVars>>

\* ------------------------------------------------------------ entry points
Accounts == {"def-someuser"}
ScriptDirs == {"~/visium/scripts"}
InstallDirs == {"~/visium"}
Outputs == { <<"config", ".json">>, <<"config", ".txt">> }
Subcommands == {"get-dependencies", "create-config", "generate-scripts", "run-scripts"}
Handlers == {"install_dependencies", "create_config", "generate_scripts", "run_scripts"}

\* the handler each subparser registers with set_defaults(func=...)
set_defaults(cmd) ==
    CASE cmd = "get-dependencies" -> "install_dependencies"
      [] cmd = "create-config" -> "create_config"
      [] cmd = "generate-scripts" -> "generate_scripts"
      [] cmd = "run-scripts" -> "install_dependencies"

\* the namespaces parse_args can produce for a subcommand
ParsedArgs(cmd) ==
    CASE cmd = "get-dependencies" -> { [dir |-> d] : d \in InstallDirs }
      [] cmd = "create-config" -> { [output |-> o] : o \in Outputs }
      [] cmd = "generate-scripts" ->
            { [configuration |-> "config.json", account |-> a] : a \in Accounts }
      [] cmd = "run-scripts" -> { [dir |-> d] : d \in ScriptDirs }

\* the namespaces a handler is written for
HandlerArgs(f) ==
    CASE f = "install_dependencies" -> ParsedArgs("get-dependencies")
      [] f = "create_config" -> ParsedArgs("create-config")
      [] f = "generate_scripts" -> ParsedArgs("generate-scripts")
      [] f = "run_scripts" -> ParsedArgs("run-scripts")

\* lines 239-279: the script run from the command line.  Without a
\* subcommand the namespace has no `func`: AttributeError, and the help
\* is printed.
Main ==
    /\ pc = "idle"
    /\ \E cmd \in Subcommands \cup {NoCommand} :
         /\ command' = cmd
         /\ IF cmd = NoCommand
            THEN /\ printed' = Append(printed, <<"usage">>)
                 /\ pc' = "returned"
                 /\ UNCHANGED <<func, args>>
            ELSE /\ func' = set_defaults(cmd)
                 /\ \E a \in ParsedArgs(cmd) : args' = a
                 /\ pc' = "call"
                 /\ printed' = printed
    /\ UNCHANGED <<exc, fs, dirs, ran>>
    /\ UNCHANGED <<genVars, runVars, instVars>>

\* a handler called as a function, not through the command line; only
\* run_scripts needs it, the handler no subcommand registers
Call ==
    /\ pc = "idle"
    /\ \E f \in Handlers \ { set_defaults(cmd) : cmd \in Subcommands } :
         /\ func' = f
         /\ \E a \in HandlerArgs(f) : args' = a
    /\ pc' = "call"
    /\ UNCHANGED <<command, exc, fs, dirs, ran, printed>>
    /\ UNCHANGED <<genVars, runVars, instVars>>

\* the process ends; only the files on disk remain
Exit ==
    /\ pc \in {"returned", "raised"}
    /\ pc' = "idle"
    /\ command' = NoCommand
    /\ func' = NoFunc
    /\ args' = NoArgs
    /\ exc' = NoException
    /\ dirs' = {}
    /\ configuration' = NoConfiguration
    /\ i' = 0
    /\ written' = <<>>
    /\ fs0' = NoFiles
    /\ ran' = <<>>
    /\ printed' = <<>>
    /\ scripts' = <<>>
    /\ idx' = 0
    /\ polls' = 0
    /\ p' = NoProcess
    /\ answers' = NoAnswers
    /\ onPath' = Tools
    /\ UNCHANGED fs

Next ==
    \/ Main
    \/ Call
    \/ GenLoad
    \/ GenDirs
    \/ GenSample
    \/ GenReturn
    \/ RunList
    \/ RunLoop
    \/ RunLoopEnd
    \/ WaitPoll
    \/ InstPrompt
    \/ InstSpaceRanger
    \/ InstHuman
    \/ InstMouse
    \/ CreateConfig
    \/ Exit

Spec == Init /\ [][Next]_vars

\* ==================================================================== claims
\* every top-level key and every key of every sample is present
IsValidConfig(c) ==
    /\ TopKeys \subseteq DOMAIN c
    /\ \A n \in DOMAIN c["samples"] : SampleKeys \subseteq DOMAIN c["samples"][n]

\* the path <script dir>/<kind>_<index>.sh, spelled out for one-digit indices
ScriptPath(dir, kind, index) == <<dir, "/", kind, "_", Digits[index + 1], ".sh">>

\* the 2n paths of a run over n samples, in the order download_0, process_0, ...
ScriptPathsInOrder(dir, n) ==
    [j \in 1..(2 * n) |-> IF j % 2 = 1
                          THEN ScriptPath(dir, "download", (j - 1) \div 2)
                          ELSE ScriptPath(dir, "process", (j - 2) \div 2)]

Range(seq) == { seq[k] : k \in DOMAIN seq }

GenFinished == func = "generate_scripts" /\ pc \in {"returned", "raised"}

\* C4: for a configuration that has every key and N samples, generate_scripts
\* returns having written exactly the 2N files download_i.sh and process_i.sh
\* (i = 0..N-1, the position of the sample) into the script directory, in
\* sample order.
C4_TwoFilesPerSample ==
    (GenFinished /\ IsValidConfig(configuration)) =>
        LET N == Len(configuration["samples"])
            expected == ScriptPathsInOrder(configuration["script directory"], N)
        IN /\ pc = "returned"
           /\ written = expected
           /\ Cardinality(Range(written)) = 2 * N
           /\ Range(written) \subseteq DOMAIN fs

C4_Witness ==
    /\ GenFinished /\ IsValidConfig(configuration)
    /\ Len(configuration["samples"]) = 2
    /\ Len(written) = 4

\* the script has a line in which `flag` is followed by `value`
HasClause(script, flag, value) ==
    \E l \in DOMAIN script :
        \E k \in 1..(Len(script[l]) - 1) :
            script[l][k] = flag /\ script[l][k + 1] = value

\* slide and area are both present and not null
BothSet(sample) ==
    /\ HasKey(sample, "slide") /\ sample["slide"] # None
    /\ HasKey(sample, "area") /\ sample["area"] # None

\* the samples whose scripts the running call has written
SamplesWritten ==
    IF func = "generate_scripts" /\ pc \in {"gen_loop", "returned", "raised"}
    THEN 0..(i - 1) ELSE {}

\* C6: every processing script written has exactly one slide-addressing form:
\* --slide=<slide> and --area=<area> without --unknown-slide when both slide
\* and area are set, --unknown-slide=<version> without --slide= and --area=
\* in every other case.
C6_SlideAddressing ==
    \A j \in SamplesWritten :
        LET sample == configuration["samples"][j + 1]
            script == fs[ScriptPath(configuration["script directory"], "process", j)]
        IN IF BothSet(sample)
           THEN /\ HasClause(script, "--slide=", sample["slide"])
                /\ HasClause(script, "--area=", sample["area"])
                /\ ~ScriptContains(script, "--unknown-slide=")
           ELSE /\ HasClause(script, "--unknown-slide=", configuration["version"])
                /\ ~ScriptContains(script, "--slide=")
                /\ ~ScriptContains(script, "--area=")

C6_Witness ==
    /\ GenFinished /\ pc = "returned" /\ i = 2
    /\ BothSet(configuration["samples"][1])
    /\ configuration["samples"][2]["slide"] # None
    /\ configuration["samples"][2]["area"] = None

\* the lines at which two scripts of equal length differ
DiffLines(a, b) == { l \in DOMAIN a : a[l] # b[l] }

\* the --transcriptome line for a reference directory name
TranscriptomeLine(genome, version) ==
    <<"  ", "--transcriptome=", genome, "/", version, " \\">>

OtherReference(r) == IF r = "human" THEN "mouse" ELSE "human"

\* C9: the scripts written for a configuration and those of the same
\* configuration with the other reference have identical download scripts,
\* and processing scripts that differ in the --transcriptome line alone, whose
\* path is <genome dir>/refdata-gex-GRCh38-2020-A for "human" and
\* <genome dir>/refdata-gex-mm10-2020-A for "mouse".
C9_ReferenceOnlyTranscriptome ==
    (GenFinished /\ pc = "returned" /\ IsValidConfig(configuration)) =>
        LET c == configuration
            other == [c EXCEPT !["reference"] = OtherReference(c["reference"])]
            dir == c["script directory"]
            genome == c["genome directory"]
        IN \A j \in 0..(Len(c["samples"]) - 1) :
             LET sample == c["samples"][j + 1]
                 mine == fs[ScriptPath(dir, "process", j)]
                 theirs == process_script(other, args.account, sample)
             IN /\ fs[ScriptPath(dir, "download", j)]
                     = download_script(other, args.account, sample)
                /\ Len(mine) = Len(theirs)
                /\ Cardinality(DiffLines(mine, theirs)) = 1
                /\ \A l \in DiffLines(mine, theirs) :
                     /\ mine[l] = TranscriptomeLine(genome,
                                     IF c["reference"] = "human"
                                     THEN "refdata-gex-GRCh38-2020-A"
                                     ELSE "refdata-gex-mm10-2020-A")
                     /\ theirs[l] = TranscriptomeLine(genome,
                                     IF c["reference"] = "human"
                                     THEN "refdata-gex-mm10-2020-A"
                                     ELSE "refdata-gex-GRCh38-2020-A")

C9_Witness ==
    /\ GenFinished /\ pc = "returned" /\ IsValidConfig(configuration)
    /\ configuration["reference"] = "mouse"
    /\ Len(configuration["samples"]) = 2
    /\ Len(written) = 4

\* the download_*.sh and process_*.sh paths of a run over n samples
ScriptPaths(dir, n) == Range(ScriptPathsInOrder(dir, n))

\* C10 as stated: after a run of generate_scripts over N samples the script
\* files present are exactly the 2N files of that run.
C10_OnlyLatestRun ==
    (GenFinished /\ pc = "returned" /\ IsValidConfig(configuration)) =>
        DOMAIN fs = ScriptPaths(configuration["script directory"],
                                Len(configuration["samples"]))

\* C10 amended: a run of generate_scripts adds or replaces the files of the
\* samples it has processed and leaves every other script file in place,
\* content unchanged: the files present are those of this run together with
\* the files earlier runs left at other indices.
C10_StaleFilesRemain ==
    (func = "generate_scripts" /\ pc \in {"gen_loop", "returned", "raised"}) =>
        LET dir == configuration["script directory"]
            mine == ScriptPaths(dir, i)
        IN /\ DOMAIN fs = mine \cup DOMAIN fs0
           /\ \A f \in (DOMAIN fs0) \ mine : fs[f] = fs0[f]
           /\ \A j \in 0..(i - 1) :
                LET sample == configuration["samples"][j + 1]
                IN /\ fs[ScriptPath(dir, "download", j)]
                        = download_script(configuration, args.account, sample)
                   /\ fs[ScriptPath(dir, "process", j)]
                        = process_script(configuration, args.account, sample)

\* a run over fewer samples than an earlier run has finished: the files of
\* the earlier run at the higher indices are still there
C10_Witness ==
    /\ GenFinished /\ pc = "returned" /\ IsValidConfig(configuration)
    /\ Len(configuration["samples"]) = 1
    /\ ScriptPath(configuration["script directory"], "process", 1) \in DOMAIN fs0
    /\ fs0[ScriptPath(configuration["script directory"], "process", 0)]
         # fs[ScriptPath(configuration["script directory"], "process", 0)]

\* C5 as stated: when the configuration file is not JSON or lacks a required
\* key (a top-level one, or one of any sample), generate_scripts aborts
\* having written no script file.
C5_AbortBeforeAnyWrite ==
    (func = "generate_scripts" /\ pc \in {"gen_dirs", "gen_loop", "returned", "raised"}
        /\ ~IsValidConfig(configuration)) =>
        /\ written = <<>>
        /\ fs = fs0

RunFinished == func = "run_scripts" /\ pc \in {"returned", "raised"}

\* the positions of `ran` at which a script whose name contains `needle`
\* was submitted
Submissions(needle) ==
    { k \in DOMAIN ran : \E n \in DOMAIN scripts :
        ran[k] = Sbatch(args.dir, scripts[n]) /\ Contains(scripts[n], needle) }

\* C1 as stated: run_scripts submits every listed name that contains
\* "download" or "process", each download submission before any process
\* submission, and submits no other name.
C1_DownloadsThenProcesses ==
    RunFinished =>
        /\ \A n \in DOMAIN scripts :
             (Contains(scripts[n], "download") \/ Contains(scripts[n], "process"))
                => Sbatch(args.dir, scripts[n]) \in Range(ran)
        /\ \A a \in Submissions("download") :
             \A b \in Submissions("process") \ Submissions("download") : a < b
        /\ \A k \in DOMAIN ran :
             ran[k][1] = "sbatch" =>
                k \in Submissions("download") \cup Submissions("process")

\* the number of job lines of the last queue-status output
JobLines == p.stdout.lines - 1

\* C2 as stated: after a poll whose output holds K >= 1 job lines the
\* submitter is still waiting, and after a poll with K = 0 it has stopped
\* waiting and goes on to submit the process scripts.
C2_WaitWhileJobs ==
    (func = "run_scripts" /\ p # NoProcess) =>
        IF JobLines >= 1
        THEN pc = "wait"
        ELSE pc \in {"run_process", "returned"}

\* the queue-status invocations of this process
SqCalls == { k \in DOMAIN ran : ran[k] = <<"sq">> }

\* C3 as stated: the wait polls at most 60 times, and when the job count
\* never drops below 1 it returns after the 60th poll without an error and
\* run_scripts submits the process scripts.
C3_WaitGivesUp ==
    /\ Cardinality(SqCalls) <= 60
    /\ (RunFinished /\ p # NoProcess /\ JobLines >= 1) =>
          /\ pc = "returned"
          /\ exc = NoException
          /\ Cardinality(SqCalls) = 60
          /\ \A n \in DOMAIN scripts :
               Contains(scripts[n], "process")
                  => Sbatch(args.dir, scripts[n]) \in Range(ran)

\* C7 as stated: the subcommand run-scripts executes run_scripts, not the
\* dependency installer.
C7_RunScriptsDispatch ==
    (command = "run-scripts" /\ pc # "idle") => func = "run_scripts"

\* C8 as stated: tar is run on an archive only after curl was run for it.
C8_ExtractAfterDownload ==
    \A k \in DOMAIN ran :
        ran[k][1] = "tar" =>
            \E d \in 1..(k - 1) :
                /\ ran[d][1] = "curl"
                /\ SubSeq(ran[d], 3, Len(ran[d]) - 1) = SubSeq(ran[k], 3, Len(ran[k]))

====
